---- MODULE Spec2Model ----
(***************************************************************************)
(* The upload -> transcribe -> analyse pipeline of the DocNexus server.    *)
(*                                                                         *)
(* The repository carries two servers for POST /api/upload:                *)
(*   Spec       server/routes/upload.js (submit, retry, delete, pipeline   *)
(*              with processingErrors) with server/routes/transcripts.js   *)
(*   SpecDedup  unnamed/part_009 (submit with the duplicate check, pipeline *)
(*              reading the stored file back through fileService.getFile)  *)
(* Both call OpenAIService.transcribeAudio (unnamed/part_011) and          *)
(* fileService (server/services/fileService.js).                           *)
(*                                                                         *)
(* Every await of a handler is a scheduling point: an action is the code   *)
(* that runs when the awaited operation completes, up to the next await.   *)
(***************************************************************************)
EXTENDS Integers, Sequences, FiniteSets, TLC

\* ---------------------------------------------------------------- bounds
MaxUploads == 1        \* uploads accepted by the upload.js server
MaxSubmits == 2        \* uploads accepted by the part_009 server
MaxTime == 3           \* clock ticks (one tick = one minute)
MaxPasses == 1         \* reanalyze requests that reach the Analysis Provider

\* ------------------------------------------------------ program constants
maxRetries == 2        \* OpenAIService.transcribeAudio: const maxRetries = 2
DedupeWindow == 2      \* part_009: Date.now() - 2 * 60 * 1000, in minutes
Undefined == -1        \* a number the provider left out (JS undefined)

\* ------------------------------------------------------------ input sets
HcpNames == {"", "Dr. Smith", "Dr. Jones"}
HcpSpecialties == {"", "Cardiology"}
MeetingDates == {"", "2024-01-10"}

\* Uploaded files: original name, its path.extname, and the mimetype sent.
UploadedFiles ==
  { [name |-> "meeting1.mp3", ext |-> ".mp3", mime |-> "audio/mpeg"],
    [name |-> "visit.mp4",    ext |-> ".mp4", mime |-> "video/mp4"],
    [name |-> "notes.txt",    ext |-> ".txt", mime |-> "text/plain"],
    [name |-> "memo.txt",     ext |-> ".txt", mime |-> "audio/mpeg"] }

SubmitInputs ==
  [file : UploadedFiles, hcpName : HcpNames, hcpSpecialty : HcpSpecialties,
   meetingDate : MeetingDates]

\* The submissions sent to the part_009 server: every name, the other two
\* fields present, the files whose mimetype agrees with their extension.
DedupInputs ==
  {in \in SubmitInputs : /\ in.hcpSpecialty # "" /\ in.meetingDate # ""
                         /\ in.file.name # "memo.txt"}

\* What the Transcription Provider can answer to one call.
NetworkError == "ECONNRESET"
OtherError == "400 Invalid file format"
TranscriptionResults ==
  { [text |-> "hello world", duration |-> 42],
    [text |-> "",            duration |-> Undefined] }

EditTexts == {"", "edited text"}

\* ----------------------------------------------------------------- state
VARIABLES
  now,        \* wall clock
  files,      \* paths that exist on the local disk
  store,      \* Record Store: _id -> Transcript document
  nextId,     \* next _id the Record Store hands out
  nextUpload, \* next uuid of multer / fileService
  reqs,       \* submit requests in flight, by upload number
  runs,       \* pipeline runs (processTranscription calls), in start order
  reanalyses, \* reanalyze requests in flight / finished
  resp        \* the HTTP response sent by the latest step (NoResp: none)

vars == <<now, files, store, nextId, nextUpload, reqs, runs, reanalyses, resp>>

\* ------------------------------------------------------------- paths
\* multer diskStorage: server/uploads/<uuid>-<originalname>
TempUploadPath(k, ext) == [dir |-> "server/uploads/multer", n |-> k, ext |-> ext]
\* fileService.uploadFile: server/uploads/<uuid><ext>
StoredPath(k, ext) == [dir |-> "server/uploads", n |-> k, ext |-> ext]
\* fileService.uploadFile: url = `${protocol}://${host}/api/files/uploads/<uuid><ext>`
FileUrl(k, ext) == [dir |-> "http://host/api/files/uploads", n |-> k, ext |-> ext]
\* fileService.uploadFile: key = `uploads/<uuid><ext>`
FileKey(k, ext) == [dir |-> "uploads", n |-> k, ext |-> ext]
\* fileService.getFile: path.join(uploadsDir, filename) for a key uploads/<filename>
KeyPath(key) == [dir |-> "server/uploads", n |-> key.n, ext |-> key.ext]
\* A variant of the retry path that leads to the stored copy, used to test C16.
RetryFilePathToStoredCopy(fileUrl) ==
  [dir |-> "server/uploads", n |-> fileUrl.n, ext |-> fileUrl.ext]

\* retry: path.join(__dirname, '..', transcript.fileUrl); path.join keeps the
\* URL as path segments below the server directory ("http://" -> "http:/").
RetryFilePath(fileUrl) ==
  [dir |-> "server/http:/host/api/files/uploads", n |-> fileUrl.n, ext |-> fileUrl.ext]
\* transcribeAudio: audioPath = filePath + '.mp3'
AudioPath(p) == [dir |-> p.dir, n |-> p.n, ext |-> "audio-of" \o p.ext]
\* part_009: path.join(os.tmpdir(), `${transcriptId}${ext}`)
OsTempPath(id, ext) == [dir |-> "os.tmpdir", n |-> id, ext |-> ext]

\* ------------------------------------------------------------- helpers
Ids == DOMAIN store

NoResp == [op |-> "none", code |-> 0, id |-> 0, status |-> "", error |-> ""]

\* Transcript.findByIdAndUpdate(id, update): a missing document is left missing.
FindByIdAndUpdate(s, id, update) ==
  IF id \in DOMAIN s
    THEN [s EXCEPT ![id] = [f \in DOMAIN s[id] |->
                              IF f \in DOMAIN update THEN update[f] ELSE s[id][f]]]
    ELSE s

\* { $push: { processingErrors: e } } together with the other fields of update.
PushError(s, id, e) ==
  IF id \in DOMAIN s
    THEN [s EXCEPT ![id].processingErrors = Append(@, e)]
    ELSE s


\* ------------------------------------------------------- upload filter
AllowedTypes ==
  {"audio/mpeg", "audio/wav", "audio/mp4", "video/mp4", "video/quicktime",
   "video/x-msvideo"}
AllowedExtensions == {".mp3", ".wav", ".m4a", ".mp4", ".avi", ".mov"}

\* fileFilter: accepted when the mimetype or the extension is whitelisted.
fileFilter(file) == file.mime \in AllowedTypes \/ file.ext \in AllowedExtensions

\* ['mp3', 'wav', 'm4a'].includes(fileExtension), fileExtension = path.extname(...)
AudioExtensionList == {"mp3", "wav", "m4a"}
FileTypeOf(ext) == IF ext \in AudioExtensionList THEN "audio" ELSE "video"

\* !hcpName || !hcpSpecialty || !meetingDate
MissingRequiredFields(in) ==
  in.hcpName = "" \/ in.hcpSpecialty = "" \/ in.meetingDate = ""

\* --------------------------------------------------- Transcript document
\* sentimentAnalysis, keyInsights and actionItems carry the analysis pass that
\* wrote them; the schema defaults belong to no pass.
DefaultAnalysis == [by |-> "default", n |-> 0]
DefaultList == [by |-> "default", n |-> 0, val |-> "[]"]

\* new Transcript({...}) of upload.js / part_009 with the schema defaults; `at`
\* is Date.now() when the document is constructed.
NewTranscript(in, k, at) ==
  [ originalFileName    |-> in.file.name,
    fileUrl             |-> FileUrl(k, in.file.ext),
    fileType            |-> FileTypeOf(in.file.ext),
    meetingDate         |-> in.meetingDate,
    hcpName             |-> in.hcpName,
    hcpSpecialty        |-> in.hcpSpecialty,
    meetingDuration     |-> 0,
    rawTranscript       |-> "",
    editedTranscript    |-> "",
    transcriptionStatus |-> "pending",
    sentimentAnalysis   |-> DefaultAnalysis,
    keyInsights         |-> DefaultList,
    actionItems         |-> DefaultList,
    processingStartTime |-> at,
    processingEndTime   |-> Undefined,
    processingErrors    |-> << >>,
    createdAt           |-> at ]

\* ------------------------------------------------------------ requests
FreeReq ==
  [pc |-> "free", at |-> 0,
   input |-> [file |-> [name |-> "", ext |-> "", mime |-> ""], hcpName |-> "",
              hcpSpecialty |-> "", meetingDate |-> ""]]

NoResult == [success |-> FALSE, error |-> ""]
NoInsights == [keyInsights |-> "undefined", actionItems |-> "undefined"]

\* A call processTranscription(transcriptId, filePath) that has not yet run.
NoPath == [dir |-> "", n |-> 0, ext |-> ""]

NewRun(id, filePath) ==
  [ id |-> id, filePath |-> filePath, fileKey |-> NoPath, pc |-> "pt_start",
    attempt |-> 0,
    tempAudioCreated |-> FALSE, calls |-> << >>, waits |-> << >>, thrown |-> "",
    result |-> NoResult, text |-> "", insights |-> NoInsights,
    analysis |-> "none" ]

\* processTranscription has returned: its locals are gone; the provider calls
\* made, the transcription result and the outcome of the analysis are kept as
\* the record of the run.
Returned(run, analysis) ==
  [run EXCEPT !.pc = "done", !.attempt = 0, !.tempAudioCreated = FALSE,
              !.thrown = "", !.text = "", !.insights = NoInsights,
              !.analysis = analysis]

Init ==
  /\ now = 0
  /\ files = {}
  /\ store = << >>
  /\ nextId = 1
  /\ nextUpload = 1
  /\ reqs = [k \in 1..MaxSubmits |-> FreeReq]
  /\ runs = << >>
  /\ reanalyses = << >>
  /\ resp = NoResp

Respond(op, code, id, status, error) ==
  [op |-> op, code |-> code, id |-> id, status |-> status, error |-> error]

\* One minute passes.  A minute is long against a request handler and a
\* pipeline run: the clock is advanced between them, not in the middle of one.
Tick ==
  /\ now < MaxTime
  /\ \A k \in 1..MaxSubmits : reqs[k].pc = "free"
  /\ \A r \in 1..Len(runs) : runs[r].pc = "done"
  /\ now' = now + 1
  /\ resp' = NoResp
  /\ UNCHANGED <<files, store, nextId, nextUpload, reqs, runs, reanalyses>>

\* ------------------------------------------- POST /api/upload (upload.js)
\* catch of the submit handler: res.status(500).json({ error: error.message })
FailedResponse(message) == Respond("submit", 500, 0, "", message)

\* uploadMiddleware and the handler up to `await transcript.save()`.
Submit(in) ==
  IF ~fileFilter(in.file)
    THEN /\ resp' = Respond("submit", 400, 0, "", "Invalid file type")
         /\ UNCHANGED <<now, files, store, nextId, nextUpload, reqs, runs, reanalyses>>
    ELSE /\ nextUpload <= MaxUploads
         /\ nextUpload' = nextUpload + 1
         /\ IF MissingRequiredFields(in)
              THEN /\ files' = files \cup {TempUploadPath(nextUpload, in.file.ext)}
                   /\ resp' = Respond("submit", 400, 0, "", "Missing required fields")
                   /\ UNCHANGED reqs
              ELSE \* fileService.uploadFile copies the temp file into
                   \* server/uploads; when the copy fails the handler throws and
                   \* its catch unlinks the temp file and answers 500.
                   \E copied \in BOOLEAN :
                     IF copied
                       THEN /\ files' = files \cup {TempUploadPath(nextUpload, in.file.ext),
                                                    StoredPath(nextUpload, in.file.ext)}
                            /\ reqs' = [reqs EXCEPT ![nextUpload] =
                                          [pc |-> "save", at |-> now, input |-> in]]
                            /\ resp' = NoResp
                       ELSE /\ resp' = FailedResponse("File upload failed")
                            /\ UNCHANGED <<files, reqs>>
         /\ UNCHANGED <<now, store, nextId, runs, reanalyses>>

\* A variant of the 201 answer that reports the status the Recording is stored
\* with, used to test C11.
AcceptedResponseAsStored(id) == Respond("submit", 201, id, "pending", "")

\* res.status(201).json({ transcriptId, status: 'processing' })
AcceptedResponse(id) == Respond("submit", 201, id, "processing", "")

\* transcript.save() completed: processTranscription is called and 201 is sent.
SubmitSaved(k) ==
  /\ reqs[k].pc = "save"
  /\ store' = (nextId :> NewTranscript(reqs[k].input, k, reqs[k].at)) @@ store
  /\ nextId' = nextId + 1
  /\ runs' = Append(runs, NewRun(nextId, TempUploadPath(k, reqs[k].input.file.ext)))
  /\ reqs' = [reqs EXCEPT ![k] = FreeReq]
  /\ resp' = AcceptedResponse(nextId)
  /\ UNCHANGED <<now, files, nextUpload, reanalyses>>

\* transcript.save() rejected (validation or connection error): the catch
\* unlinks the temp file and answers 500; the stored copy is left in place.
SubmitSaveFailed(k) ==
  /\ reqs[k].pc = "save"
  /\ files' = files \ {TempUploadPath(k, reqs[k].input.file.ext)}
  /\ reqs' = [reqs EXCEPT ![k] = FreeReq]
  /\ resp' = FailedResponse("save failed")
  /\ UNCHANGED <<now, store, nextId, nextUpload, runs, reanalyses>>

\* ------------------------------- OpenAIService.transcribeAudio (part_011)
VideoExtensions == {".mp4", ".avi", ".mov", ".mkv"}

\* error.code === 'ECONNRESET' || message includes 'ECONNRESET' / 'Connection error'
isNetworkError(error) == error = NetworkError

\* `isNetworkError && attempt < maxRetries - 1`: sleep and call again.
RetriesLeft(error, attempt) == isNetworkError(error) /\ attempt < maxRetries - 1

\* const wait = 1000 * Math.pow(2, attempt), in milliseconds
wait(attempt) == 1000 * 2^attempt

\* The object returned when the loop is left without a transcription.
TranscribeFailure(lastError) == [success |-> FALSE, error |-> lastError]

TranscribeSuccess(res) ==
  [success |-> TRUE, text |-> res.text, duration |-> res.duration]

\* obj.field read as a condition: a missing property is undefined, hence false.
Truthy(obj, field) == field \in DOMAIN obj /\ obj[field] = TRUE

\* finally of transcribeAudio: the extracted audio is removed when it was created.
WithoutTempAudio(fs, run) ==
  IF run.tempAudioCreated THEN fs \ {AudioPath(run.filePath)} ELSE fs

\* finally of processTranscription: fs.unlinkSync(filePath) when it exists.
WithoutFilePath(fs, run) == fs \ {run.filePath}

\* Where processTranscription goes on when transcribeAudio returns or throws:
\* upload.js runs have no fileKey, part_009 runs have one.
IsPart009(run) == run.fileKey # NoPath
\* A variant in which a failed transcription goes on to the analysis, used to
\* test C24.
FailPcIntoAnalysis(run) == IF IsPart009(run) THEN "p9_ai_find" ELSE "ai_find"

FailPc(run) == IF IsPart009(run) THEN "p9_fail" ELSE "pt_fail"
SavePc(run) == IF IsPart009(run) THEN "p9_save" ELSE "pt_save"

\* part_009 "Clean up temp file": after transcribeAudio has returned, the temp
\* copy it was given is unlinked; upload.js leaves that to its finally.
AfterTranscribeAudio(fs, run) ==
  IF IsPart009(run) THEN fs \ {run.filePath} ELSE fs

\* The synchronous head of transcribeAudio(filePath): statSync, then either the
\* audio extraction or the first provider call is awaited.
EnterTranscribeAudio(run, fs) ==
  IF run.filePath \notin fs
    THEN [run EXCEPT !.pc = FailPc(run), !.thrown = "ENOENT"]
    ELSE IF run.filePath.ext \in VideoExtensions
           THEN [run EXCEPT !.pc = "ta_extract"]
           ELSE [run EXCEPT !.pc = "ta_call"]

\* processTranscription: status -> processing, then transcribeAudio is entered.
PT_Start(r) ==
  /\ runs[r].pc = "pt_start"
  /\ store' = FindByIdAndUpdate(store, runs[r].id,
                [transcriptionStatus |-> "processing", processingStartTime |-> now])
  /\ runs' = [runs EXCEPT ![r] = EnterTranscribeAudio(runs[r], files)]
  /\ resp' = NoResp
  /\ UNCHANGED <<now, files, nextId, nextUpload, reqs, reanalyses>>

\* ffmpeg ends: 'end' sets tempAudioCreated; 'error' rejects and may leave a
\* partly written output behind.
TA_Extract(r) ==
  /\ runs[r].pc = "ta_extract"
  /\ \E ok \in BOOLEAN, partial \in BOOLEAN :
       IF ok
         THEN /\ partial = FALSE
              /\ files' = files \cup {AudioPath(runs[r].filePath)}
              /\ runs' = [runs EXCEPT ![r].pc = "ta_call", ![r].tempAudioCreated = TRUE]
         ELSE /\ files' = IF partial THEN files \cup {AudioPath(runs[r].filePath)} ELSE files
              /\ runs' = [runs EXCEPT ![r].pc = FailPc(runs[r]),
                                       ![r].thrown = "ffmpeg error"]
  /\ resp' = NoResp
  /\ UNCHANGED <<now, store, nextId, nextUpload, reqs, reanalyses>>

\* One answer of the Transcription Provider to openai.audio.transcriptions.create.
TA_Call(r) ==
  /\ runs[r].pc = "ta_call"
  /\ \/ \E res \in TranscriptionResults :
          /\ runs' = [runs EXCEPT ![r].pc = SavePc(runs[r]),
                                  ![r].calls = Append(@, "ok"),
                                  ![r].result = TranscribeSuccess(res)]
          /\ files' = AfterTranscribeAudio(WithoutTempAudio(files, runs[r]), runs[r])
     \/ \E error \in {NetworkError, OtherError} :
          IF RetriesLeft(error, runs[r].attempt)
            THEN /\ runs' = [runs EXCEPT ![r].pc = "ta_sleep",
                                         ![r].calls = Append(@, error),
                                         ![r].waits = Append(@, wait(runs[r].attempt))]
                 /\ UNCHANGED files
            ELSE /\ runs' = [runs EXCEPT ![r].pc = FailPc(runs[r]),
                                         ![r].calls = Append(@, error),
                                         ![r].result = TranscribeFailure(error)]
                 /\ files' = AfterTranscribeAudio(WithoutTempAudio(files, runs[r]),
                                                  runs[r])
  /\ resp' = NoResp
  /\ UNCHANGED <<now, store, nextId, nextUpload, reqs, reanalyses>>

\* await sleep(wait); attempt++; continue
TA_Sleep(r) ==
  /\ runs[r].pc = "ta_sleep"
  /\ runs' = [runs EXCEPT ![r].pc = "ta_call", ![r].attempt = @ + 1]
  /\ resp' = NoResp
  /\ UNCHANGED <<now, files, store, nextId, nextUpload, reqs, reanalyses>>


\* ------------------------------------------ processTranscription (upload.js)
ErrorEntry(message) == [error |-> message]

\* The message of the Error that reaches the catch of processTranscription.
CaughtMessage(run) ==
  IF run.thrown # "" THEN run.thrown
  ELSE "Transcription failed: " \o run.result.error

\* `if (!transcriptionResult.success)`: the retryable branch returns after its
\* update, everything else is thrown to the catch; both end in the finally.
FailureUpdate(s, run) ==
  IF run.thrown = "" /\ Truthy(run.result, "retryable")
    THEN PushError(FindByIdAndUpdate(s, run.id,
                     [transcriptionStatus |-> "retryable_failed",
                      processingEndTime |-> now]),
                   run.id, ErrorEntry(run.result.error))
    ELSE PushError(FindByIdAndUpdate(s, run.id,
                     [transcriptionStatus |-> "failed",
                      processingEndTime |-> now]),
                   run.id, ErrorEntry(CaughtMessage(run)))

PT_Fail(r) ==
  /\ runs[r].pc = "pt_fail"
  /\ store' = FailureUpdate(store, runs[r])
  /\ files' = WithoutFilePath(files, runs[r])
  /\ runs' = [runs EXCEPT ![r] = Returned(runs[r], "none")]
  /\ resp' = NoResp
  /\ UNCHANGED <<now, nextId, nextUpload, reqs, reanalyses>>

\* transcriptionResult.duration || 0
DurationOrZero(d) == IF d = Undefined \/ d = 0 THEN 0 ELSE d

\* A variant of the write after a successful transcription that leaves the
\* text out, used to test C2.
TranscriptionUpdateWithoutText(res) ==
  [transcriptionStatus |-> "completed",
   meetingDuration |-> IF res.duration = Undefined THEN 0 ELSE res.duration,
   processingEndTime |-> now]

\* "Update transcript with results": the write that follows a successful
\* transcription.
TranscriptionUpdate(res) ==
  [rawTranscript |-> res.text,
   transcriptionStatus |-> "completed",
   meetingDuration |-> DurationOrZero(res.duration),
   processingEndTime |-> now]

\* The transcription result is written, then processAIAnalysis starts with its
\* findById.
PT_Save(r) ==
  /\ runs[r].pc = "pt_save"
  /\ store' = FindByIdAndUpdate(store, runs[r].id, TranscriptionUpdate(runs[r].result))
  /\ runs' = [runs EXCEPT ![r].pc = "ai_find"]
  /\ resp' = NoResp
  /\ UNCHANGED <<now, files, nextId, nextUpload, reqs, reanalyses>>

\* -------------------------------------------- processAIAnalysis (upload.js)
InsightResponses ==
  { [keyInsights |-> "list", actionItems |-> "list"],
    [keyInsights |-> "undefined", actionItems |-> "list"],
    [keyInsights |-> "string", actionItems |-> "list"] }

\* insightsResult.keyInsights || []
OrEmptyList(v) == IF v = "undefined" THEN "[]" ELSE v

\* A variant of the analysis update that persists the sentiment alone, used to
\* test C23.
AnalysisUpdateSentimentOnly(pass, insights) == [sentimentAnalysis |-> pass]

\* A variant of the analysis update that also empties the error list, used to
\* test C20.
AnalysisUpdateClearingErrors(pass, insights) ==
  [sentimentAnalysis |-> pass,
   keyInsights |-> [by |-> pass.by, n |-> pass.n, val |-> OrEmptyList(insights.keyInsights)],
   actionItems |-> [by |-> pass.by, n |-> pass.n, val |-> OrEmptyList(insights.actionItems)],
   processingErrors |-> << >>]

\* The update that persists one analysis pass.
AnalysisUpdate(pass, insights) ==
  [sentimentAnalysis |-> pass,
   keyInsights |-> [by |-> pass.by, n |-> pass.n, val |-> OrEmptyList(insights.keyInsights)],
   actionItems |-> [by |-> pass.by, n |-> pass.n, val |-> OrEmptyList(insights.actionItems)]]

\* findById: a deleted transcript throws 'Transcript not found'.
AI_Find(r) ==
  /\ runs[r].pc = "ai_find"
  /\ runs' = IF runs[r].id \in Ids
               THEN [runs EXCEPT ![r].pc = "ai_sentiment",
                                 ![r].text = store[runs[r].id].rawTranscript]
               ELSE [runs EXCEPT ![r].pc = "ai_catch",
                                 ![r].thrown = "Transcript not found"]
  /\ resp' = NoResp
  /\ UNCHANGED <<now, files, store, nextId, nextUpload, reqs, reanalyses>>

\* openaiService.analyzeSentiment(transcriptText) answers.
AI_Sentiment(r) ==
  /\ runs[r].pc = "ai_sentiment"
  /\ \E success \in BOOLEAN :
       runs' = IF success
                 THEN [runs EXCEPT ![r].pc = "ai_insights"]
                 ELSE [runs EXCEPT ![r].pc = "ai_catch",
                                   ![r].thrown = "Sentiment analysis failed"]
  /\ resp' = NoResp
  /\ UNCHANGED <<now, files, store, nextId, nextUpload, reqs, reanalyses>>

\* openaiService.extractKeyInsights(transcriptText) answers.
AI_Insights(r) ==
  /\ runs[r].pc = "ai_insights"
  /\ \/ \E ins \in InsightResponses :
          runs' = [runs EXCEPT ![r].pc = "ai_update", ![r].insights = ins]
     \/ runs' = [runs EXCEPT ![r].pc = "ai_catch",
                             ![r].thrown = "Insights extraction failed"]
  /\ resp' = NoResp
  /\ UNCHANGED <<now, files, store, nextId, nextUpload, reqs, reanalyses>>

\* The update names a value for keyInsights or actionItems that is not a list:
\* the schema declares both as arrays of subdocuments, and the update either
\* goes through or is rejected with a cast error.
NotAList(update) ==
  \E f \in {"keyInsights", "actionItems"} \cap DOMAIN update :
    update[f].val \notin {"list", "[]"}

UpdateOutcomes(update) == IF NotAList(update) THEN {"written", "CastError"} ELSE {"written"}

\* The analysis results are written; processTranscription then leaves through
\* its finally. A rejected update is caught by the catch of processAIAnalysis.
AI_Update(r) ==
  /\ runs[r].pc = "ai_update"
  /\ LET update == AnalysisUpdate([by |-> "pipeline", n |-> r], runs[r].insights)
     IN \E outcome \in UpdateOutcomes(update) :
          IF outcome = "written"
            THEN /\ store' = FindByIdAndUpdate(store, runs[r].id, update)
                 /\ files' = WithoutFilePath(files, runs[r])
                 /\ runs' = [runs EXCEPT ![r] = Returned(runs[r], "ok")]
            ELSE /\ runs' = [runs EXCEPT ![r].pc = "ai_catch", ![r].thrown = outcome]
                 /\ UNCHANGED <<store, files>>
  /\ resp' = NoResp
  /\ UNCHANGED <<now, nextId, nextUpload, reqs, reanalyses>>

\* A variant of the catch of processAIAnalysis that records nothing, used to
\* test C3.
AnalysisFailureUnrecorded(s, run) == s

\* catch of processAIAnalysis: the error is pushed, nothing else is written.
AnalysisFailureUpdate(s, run) ==
  PushError(s, run.id, ErrorEntry("AI Analysis failed: " \o run.thrown))

AI_Catch(r) ==
  /\ runs[r].pc = "ai_catch"
  /\ store' = AnalysisFailureUpdate(store, runs[r])
  /\ files' = WithoutFilePath(files, runs[r])
  /\ runs' = [runs EXCEPT ![r] = Returned(runs[r], "failed")]
  /\ resp' = NoResp
  /\ UNCHANGED <<now, nextId, nextUpload, reqs, reanalyses>>

\* ------------------------------ POST /api/upload/:transcriptId/retry
\* A variant of the retry precondition that also lets a completed Recording
\* through, used to test C6.
IsRetryableOrCompleted(status) ==
  status \in {"retryable_failed", "failed", "completed"}

\* "Check if transcript is in a retryable state"
IsRetryableState(status) == status = "retryable_failed" \/ status = "failed"

\* findById has answered; the rest of the handler runs without another await.
Retry(id) ==
  /\ IF id \notin Ids
       THEN /\ resp' = Respond("retry", 404, id, "", "Transcript not found")
            /\ UNCHANGED runs
       ELSE IF ~IsRetryableState(store[id].transcriptionStatus)
         THEN /\ resp' = Respond("retry", 400, id, "", "Transcript is not in a retryable state")
              /\ UNCHANGED runs
         ELSE IF RetryFilePath(store[id].fileUrl) \notin files
           THEN /\ resp' = Respond("retry", 404, id, "", "Original file not found")
                /\ UNCHANGED runs
           ELSE /\ runs' = Append(runs, NewRun(id, RetryFilePath(store[id].fileUrl)))
                /\ resp' = Respond("retry", 200, id, "processing", "")
  /\ UNCHANGED <<now, files, store, nextId, nextUpload, reqs, reanalyses>>

\* ------------------------------------- PUT /api/transcripts/:id (edit)
\* A variant of the editor's whitelist that lets the status through, used to
\* test C1.
AllowedFieldsWithStatus ==
  {"editedTranscript", "hcpName", "hcpSpecialty", "meetingDate", "attendees",
   "keyInsights", "actionItems", "transcriptionStatus"}

\* allowedFields of the PUT handler.
AllowedFields ==
  {"editedTranscript", "hcpName", "hcpSpecialty", "meetingDate", "attendees",
   "keyInsights", "actionItems"}

\* Request bodies of the editor, and two that name a field it may not set.
EditBodies ==
  { [editedTranscript |-> t] : t \in EditTexts } \cup
  { [transcriptionStatus |-> "pending"], [processingErrors |-> << >>] }

\* A variant of filteredData that passes the whole body on, used to test C28.
FilteredDataWholeBody(body) == body

\* filteredData: the allowed fields of the body.
FilteredData(body) ==
  [f \in (DOMAIN body) \cap AllowedFields |-> body[f]]

Edit(id, body) ==
  /\ IF id \notin Ids
       THEN /\ resp' = Respond("edit", 404, id, "", "Transcript not found")
            /\ UNCHANGED store
       ELSE \E updated \in BOOLEAN :
              IF updated
                THEN /\ store' = FindByIdAndUpdate(store, id, FilteredData(body))
                     /\ resp' = Respond("edit", 200, id, store[id].transcriptionStatus, "")
                ELSE /\ UNCHANGED store
                     /\ resp' = Respond("edit", 500, id, "", "update failed")
  /\ UNCHANGED <<now, files, nextId, nextUpload, reqs, runs, reanalyses>>

\* ------------------------------ POST /api/transcripts/:id/reanalyze
\* A variant of the choice of text that prefers the raw transcript, used to
\* test C13.
TextForAnalysisRawFirst(doc) ==
  IF doc.rawTranscript # "" THEN doc.rawTranscript ELSE doc.editedTranscript

\* transcript.editedTranscript || transcript.rawTranscript
TextForAnalysis(doc) ==
  IF doc.editedTranscript # "" THEN doc.editedTranscript ELSE doc.rawTranscript

RA_Start(id) ==
  /\ IF id \notin Ids
       THEN /\ resp' = Respond("reanalyze", 404, id, "", "Transcript not found")
            /\ UNCHANGED reanalyses
       ELSE IF TextForAnalysis(store[id]) = ""
         THEN /\ resp' = Respond("reanalyze", 400, id, "", "No transcript text available")
              /\ UNCHANGED reanalyses
         ELSE /\ Len(reanalyses) < MaxPasses
              /\ reanalyses' = Append(reanalyses,
                   [id |-> id, pc |-> "ra_sentiment", text |-> TextForAnalysis(store[id]),
                    insights |-> NoInsights])
              /\ resp' = NoResp
  /\ UNCHANGED <<now, files, store, nextId, nextUpload, reqs, runs>>

RA_Sentiment(n) ==
  /\ reanalyses[n].pc = "ra_sentiment"
  /\ \E success \in BOOLEAN :
       IF success
         THEN /\ reanalyses' = [reanalyses EXCEPT ![n].pc = "ra_insights"]
              /\ resp' = NoResp
         ELSE /\ reanalyses' = [reanalyses EXCEPT ![n].pc = "done"]
              /\ resp' = Respond("reanalyze", 500, reanalyses[n].id, "",
                                 "Sentiment analysis failed")
  /\ UNCHANGED <<now, files, store, nextId, nextUpload, reqs, runs>>

RA_Insights(n) ==
  /\ reanalyses[n].pc = "ra_insights"
  /\ \/ \E ins \in InsightResponses :
          /\ reanalyses' = [reanalyses EXCEPT ![n].pc = "ra_update", ![n].insights = ins]
          /\ resp' = NoResp
     \/ /\ reanalyses' = [reanalyses EXCEPT ![n].pc = "done"]
        /\ resp' = Respond("reanalyze", 500, reanalyses[n].id, "",
                           "Insights extraction failed")
  /\ UNCHANGED <<now, files, store, nextId, nextUpload, reqs, runs>>

RA_Update(n) ==
  /\ reanalyses[n].pc = "ra_update"
  /\ LET update == AnalysisUpdate([by |-> "reanalyze", n |-> n], reanalyses[n].insights)
     IN \E outcome \in UpdateOutcomes(update) :
          IF outcome = "written"
            THEN /\ store' = FindByIdAndUpdate(store, reanalyses[n].id, update)
                 /\ resp' = Respond("reanalyze", 200, reanalyses[n].id, "", "")
            ELSE /\ UNCHANGED store
                 /\ resp' = Respond("reanalyze", 500, reanalyses[n].id, "", outcome)
  /\ reanalyses' = [reanalyses EXCEPT ![n].pc = "done", ![n].insights = NoInsights]
  /\ UNCHANGED <<now, files, nextId, nextUpload, reqs, runs>>

\* -------- DELETE /api/upload/:transcriptId and DELETE /api/transcripts/:id
Delete(id) ==
  /\ IF id \notin Ids
       THEN /\ resp' = Respond("delete", 404, id, "", "Transcript not found")
            /\ UNCHANGED store
       ELSE /\ store' = [i \in Ids \ {id} |-> store[i]]
            /\ resp' = Respond("delete", 200, id, "", "")
  /\ UNCHANGED <<now, files, nextId, nextUpload, reqs, runs, reanalyses>>

\* ============================ the part_009 server: POST /api/upload
SameKey(doc, in) ==
  /\ doc.originalFileName = in.file.name
  /\ doc.meetingDate = in.meetingDate
  /\ doc.hcpName = in.hcpName
  /\ doc.hcpSpecialty = in.hcpSpecialty

\* Variants of the duplicate check used to test the claims about it: one with
\* the four-field clause left out, one with the recent-upload clause left out.
IsDuplicateRecentOnly(doc, in, since) ==
  doc.originalFileName = in.file.name /\ doc.createdAt >= since

IsDuplicateSameKeyOnly(doc, in, since) == SameKey(doc, in)

\* The $or of the duplicate check: the same four fields, or the same file name
\* created at or after `since` = Date.now() - 2 minutes.
IsDuplicate(doc, in, since) ==
  \/ SameKey(doc, in)
  \/ doc.originalFileName = in.file.name /\ doc.createdAt >= since

\* uploadMiddleware and the handler up to `await Transcript.findOne(...)`.
SubmitDedup(in) ==
  IF ~fileFilter(in.file)
    THEN /\ resp' = Respond("submit", 400, 0, "", "Invalid file type")
         /\ UNCHANGED <<now, files, store, nextId, nextUpload, reqs, runs, reanalyses>>
    ELSE /\ nextUpload <= MaxSubmits
         /\ nextUpload' = nextUpload + 1
         /\ files' = files \cup {TempUploadPath(nextUpload, in.file.ext)}
         /\ IF MissingRequiredFields(in)
              THEN /\ resp' = Respond("submit", 400, 0, "", "Missing required fields")
                   /\ UNCHANGED reqs
              ELSE /\ reqs' = [reqs EXCEPT ![nextUpload] =
                                 [pc |-> "check", at |-> now, input |-> in]]
                   /\ resp' = NoResp
         /\ UNCHANGED <<now, store, nextId, runs, reanalyses>>

\* findOne has answered: an existing transcript is reported with 200, otherwise
\* the file is stored, the document is constructed and save() is awaited.
SubmitCheck(k) ==
  /\ reqs[k].pc = "check"
  /\ LET in == reqs[k].input
         existing == {id \in Ids : IsDuplicate(store[id], in, reqs[k].at - DedupeWindow)}
     IN IF existing # {}
          THEN /\ \E id \in existing :
                    resp' = Respond("submit", 200, id, store[id].transcriptionStatus,
                                    "Transcript already exists")
               /\ reqs' = [reqs EXCEPT ![k] = FreeReq]
               /\ UNCHANGED files
          ELSE \E copied \in BOOLEAN :
                 IF copied
                   THEN /\ files' = files \cup {StoredPath(k, in.file.ext)}
                        /\ reqs' = [reqs EXCEPT ![k].pc = "save", ![k].at = now]
                        /\ resp' = NoResp
                   ELSE /\ files' = files \ {TempUploadPath(k, in.file.ext)}
                        /\ reqs' = [reqs EXCEPT ![k] = FreeReq]
                        /\ resp' = FailedResponse("File upload failed")
  /\ UNCHANGED <<now, store, nextId, nextUpload, runs, reanalyses>>

\* A call processTranscription(transcriptId, fileKey) of part_009, scheduled
\* with setImmediate.
NewRunFromKey(id, fileKey) ==
  [NewRun(id, NoPath) EXCEPT !.fileKey = fileKey, !.pc = "p9_start"]

\* transcript.save() completed: the run is scheduled and 201 is sent.
SubmitDedupSaved(k) ==
  /\ reqs[k].pc = "save"
  /\ store' = (nextId :> NewTranscript(reqs[k].input, k, reqs[k].at)) @@ store
  /\ nextId' = nextId + 1
  /\ runs' = Append(runs, NewRunFromKey(nextId, FileKey(k, reqs[k].input.file.ext)))
  /\ reqs' = [reqs EXCEPT ![k] = FreeReq]
  /\ resp' = AcceptedResponse(nextId)
  /\ UNCHANGED <<now, files, nextUpload, reanalyses>>

\* ------------------------------------------ processTranscription (part_009)
\* status -> processing; fileService.getFile; the buffer is written to
\* os.tmpdir() and transcribeAudio is entered on that copy.
P9_Start(r) ==
  /\ runs[r].pc = "p9_start"
  /\ store' = FindByIdAndUpdate(store, runs[r].id,
                [transcriptionStatus |-> "processing", processingStartTime |-> now])
  /\ IF KeyPath(runs[r].fileKey) \notin files
       THEN /\ runs' = [runs EXCEPT ![r].pc = "p9_fail",
                                    ![r].thrown = "Failed to get file for transcription"]
            /\ UNCHANGED files
       ELSE LET tempFilePath == OsTempPath(runs[r].id, runs[r].fileKey.ext)
            IN /\ files' = files \cup {tempFilePath}
               /\ runs' = [runs EXCEPT ![r] =
                             EnterTranscribeAudio([runs[r] EXCEPT !.filePath = tempFilePath],
                                                  files')]
  /\ resp' = NoResp
  /\ UNCHANGED <<now, nextId, nextUpload, reqs, reanalyses>>

\* catch of part_009: status failed and the end time, no error entry.
P9_Fail(r) ==
  /\ runs[r].pc = "p9_fail"
  /\ store' = FindByIdAndUpdate(store, runs[r].id,
                [transcriptionStatus |-> "failed", processingEndTime |-> now])
  /\ runs' = [runs EXCEPT ![r] = Returned(runs[r], "none")]
  /\ resp' = NoResp
  /\ UNCHANGED <<now, files, nextId, nextUpload, reqs, reanalyses>>

P9_Save(r) ==
  /\ runs[r].pc = "p9_save"
  /\ store' = FindByIdAndUpdate(store, runs[r].id, TranscriptionUpdate(runs[r].result))
  /\ runs' = [runs EXCEPT ![r].pc = "p9_ai_find"]
  /\ resp' = NoResp
  /\ UNCHANGED <<now, files, nextId, nextUpload, reqs, reanalyses>>

\* --------------------------------------------- processAIAnalysis (part_009)
\* Array.isArray(insightsResult.keyInsights) ? insightsResult.keyInsights : []
ArrayOrEmpty(v) == IF v = "list" THEN v ELSE "[]"

AnalysisUpdateP9(pass, insights) ==
  [sentimentAnalysis |-> pass,
   keyInsights |-> [by |-> pass.by, n |-> pass.n, val |-> ArrayOrEmpty(insights.keyInsights)],
   actionItems |-> [by |-> pass.by, n |-> pass.n, val |-> ArrayOrEmpty(insights.actionItems)]]

\* findById; a missing transcript ends the analysis in its catch, which only logs.
P9_AI_Find(r) ==
  /\ runs[r].pc = "p9_ai_find"
  /\ runs' = IF runs[r].id \in Ids
               THEN [runs EXCEPT ![r].pc = "p9_ai_sentiment",
                                 ![r].text = store[runs[r].id].rawTranscript]
               ELSE [runs EXCEPT ![r] = Returned(runs[r], "failed")]
  /\ resp' = NoResp
  /\ UNCHANGED <<now, files, store, nextId, nextUpload, reqs, reanalyses>>

P9_AI_Sentiment(r) ==
  /\ runs[r].pc = "p9_ai_sentiment"
  /\ \E success \in BOOLEAN :
       runs' = IF success
                 THEN [runs EXCEPT ![r].pc = "p9_ai_insights"]
                 ELSE [runs EXCEPT ![r] = Returned(runs[r], "failed")]
  /\ resp' = NoResp
  /\ UNCHANGED <<now, files, store, nextId, nextUpload, reqs, reanalyses>>

P9_AI_Insights(r) ==
  /\ runs[r].pc = "p9_ai_insights"
  /\ \/ \E ins \in InsightResponses :
          runs' = [runs EXCEPT ![r].pc = "p9_ai_update", ![r].insights = ins]
     \/ runs' = [runs EXCEPT ![r] = Returned(runs[r], "failed")]
  /\ resp' = NoResp
  /\ UNCHANGED <<now, files, store, nextId, nextUpload, reqs, reanalyses>>

P9_AI_Update(r) ==
  /\ runs[r].pc = "p9_ai_update"
  /\ store' = FindByIdAndUpdate(store, runs[r].id,
                AnalysisUpdateP9([by |-> "pipeline", n |-> r], runs[r].insights))
  /\ runs' = [runs EXCEPT ![r] = Returned(runs[r], "ok")]
  /\ resp' = NoResp
  /\ UNCHANGED <<now, files, nextId, nextUpload, reqs, reanalyses>>

\* Ids a client may name: those handed out so far and one that never was.
ClientIds == 1..nextId

Next ==
  \/ \E in \in SubmitInputs : Submit(in)
  \/ \E k \in 1..MaxSubmits : SubmitSaved(k)
  \/ \E k \in 1..MaxSubmits : SubmitSaveFailed(k)
  \/ \E r \in 1..Len(runs) : PT_Start(r)
  \/ \E r \in 1..Len(runs) : TA_Extract(r)
  \/ \E r \in 1..Len(runs) : TA_Call(r)
  \/ \E r \in 1..Len(runs) : TA_Sleep(r)
  \/ \E r \in 1..Len(runs) : PT_Fail(r)
  \/ \E r \in 1..Len(runs) : PT_Save(r)
  \/ \E r \in 1..Len(runs) : AI_Find(r)
  \/ \E r \in 1..Len(runs) : AI_Sentiment(r)
  \/ \E r \in 1..Len(runs) : AI_Insights(r)
  \/ \E r \in 1..Len(runs) : AI_Update(r)
  \/ \E r \in 1..Len(runs) : AI_Catch(r)
  \/ \E id \in ClientIds : Retry(id)
  \/ \E id \in ClientIds, body \in EditBodies : Edit(id, body)
  \/ \E id \in ClientIds : RA_Start(id)
  \/ \E n \in 1..Len(reanalyses) : RA_Sentiment(n)
  \/ \E n \in 1..Len(reanalyses) : RA_Insights(n)
  \/ \E n \in 1..Len(reanalyses) : RA_Update(n)
  \/ \E id \in ClientIds : Delete(id)

Spec == Init /\ [][Next]_vars

NextDedup ==
  \/ Tick
  \/ \E in \in DedupInputs : SubmitDedup(in)
  \/ \E k \in 1..MaxSubmits : SubmitCheck(k)
  \/ \E k \in 1..MaxSubmits : SubmitDedupSaved(k)
  \/ \E k \in 1..MaxSubmits : SubmitSaveFailed(k)
  \/ \E r \in 1..Len(runs) : P9_Start(r)
  \/ \E r \in 1..Len(runs) : TA_Extract(r)
  \/ \E r \in 1..Len(runs) : TA_Call(r)
  \/ \E r \in 1..Len(runs) : TA_Sleep(r)
  \/ \E r \in 1..Len(runs) : P9_Fail(r)
  \/ \E r \in 1..Len(runs) : P9_Save(r)
  \/ \E r \in 1..Len(runs) : P9_AI_Find(r)
  \/ \E r \in 1..Len(runs) : P9_AI_Sentiment(r)
  \/ \E r \in 1..Len(runs) : P9_AI_Insights(r)
  \/ \E r \in 1..Len(runs) : P9_AI_Update(r)

SpecDedup == Init /\ [][NextDedup]_vars

\* ------------------------------ openaiService.js: transcribeFile(filePath)
\* const maxRetries = 3 of transcribeFile
TranscribeFileMaxRetries == 3

\* isVideo: the extensions transcribeFile extracts audio from
TranscribeFileVideoExtensions ==
  {".mp4", ".avi", ".mov", ".mkv", ".wmv", ".flv", ".webm"}

\* audioPath = filePath.replace(fileExt, '.mp3')
TranscribeFileAudioPath(p) == [p EXCEPT !.ext = ".mp3"]

\* const wait = Math.pow(2, attempt) * 1000, in milliseconds
TranscribeFileWait(attempt) == 2^attempt * 1000

\* `attempt < maxRetries - 1` of transcribeFile: the error is not looked at.
TranscribeFileRetriesLeft(error, attempt) == attempt < TranscribeFileMaxRetries - 1

\* The files transcribeFile is called with, the presence of the file on disk
\* and of OPENAI_API_KEY in the environment.
TranscribeFileExtensions == {".mp3", ".wav", ".mp4", ".webm"}

\* A call transcribeFile(filePath) that has not yet run.
NewTranscribeFileCall(filePath, apiKey) ==
  [ filePath |-> filePath, audioPath |-> filePath, apiKey |-> apiKey,
    pc |-> "tf_enter", attempt |-> 0, calls |-> << >>, waits |-> << >>,
    thrown |-> "", result |-> NoResult ]

InitTranscribeFile ==
  /\ now = 0
  /\ store = << >>
  /\ nextId = 1
  /\ nextUpload = 1
  /\ reqs = [k \in 1..MaxSubmits |-> FreeReq]
  /\ reanalyses = << >>
  /\ resp = NoResp
  /\ \E ext \in TranscribeFileExtensions, onDisk \in BOOLEAN, apiKey \in BOOLEAN :
       /\ files = IF onDisk THEN {StoredPath(1, ext)} ELSE {}
       /\ runs = << NewTranscribeFileCall(StoredPath(1, ext), apiKey) >>

\* The head of transcribeFile: the key and the file are checked, then either
\* the audio extraction or the first provider call is awaited.
TF_Enter(r) ==
  /\ runs[r].pc = "tf_enter"
  /\ runs' = [runs EXCEPT ![r] =
       IF ~runs[r].apiKey
         THEN [@ EXCEPT !.pc = "tf_thrown", !.thrown = "OpenAI API key not configured"]
         ELSE IF runs[r].filePath \notin files
           THEN [@ EXCEPT !.pc = "tf_thrown", !.thrown = "File not found"]
           ELSE IF runs[r].filePath.ext \in TranscribeFileVideoExtensions
             THEN [@ EXCEPT !.pc = "tf_extract",
                            !.audioPath = TranscribeFileAudioPath(runs[r].filePath)]
             ELSE [@ EXCEPT !.pc = "tf_call"]]
  /\ UNCHANGED <<now, files, store, nextId, nextUpload, reqs, reanalyses, resp>>

\* extractAudio: ffmpeg ends, or fails and may leave a partly written output.
TF_Extract(r) ==
  /\ runs[r].pc = "tf_extract"
  /\ \E ok \in BOOLEAN, partial \in BOOLEAN :
       IF ok
         THEN /\ partial = FALSE
              /\ files' = files \cup {runs[r].audioPath}
              /\ runs' = [runs EXCEPT ![r].pc = "tf_call"]
         ELSE /\ files' = IF partial THEN files \cup {runs[r].audioPath} ELSE files
              /\ runs' = [runs EXCEPT ![r].pc = "tf_thrown",
                                       ![r].thrown = "ffmpeg error"]
  /\ UNCHANGED <<now, store, nextId, nextUpload, reqs, reanalyses, resp>>

\* One answer of the Transcription Provider inside the for loop of
\* transcribeFile: a transcription is returned (the extracted audio is
\* unlinked first); an error is kept as lastError, and is thrown when the loop
\* ends.
TF_Call(r) ==
  /\ runs[r].pc = "tf_call"
  /\ \/ \E res \in TranscriptionResults :
          /\ runs' = [runs EXCEPT ![r].pc = "tf_returned",
                                  ![r].calls = Append(@, "ok"),
                                  ![r].result = TranscribeSuccess(res)]
          /\ files' = IF runs[r].filePath.ext \in TranscribeFileVideoExtensions
                        THEN files \ {runs[r].audioPath}
                        ELSE files
     \/ \E error \in {NetworkError, OtherError} :
          /\ UNCHANGED files
          /\ IF TranscribeFileRetriesLeft(error, runs[r].attempt)
               THEN runs' = [runs EXCEPT
                      ![r].pc = "tf_sleep",
                      ![r].calls = Append(@, error),
                      ![r].waits = Append(@, TranscribeFileWait(runs[r].attempt))]
               ELSE runs' = [runs EXCEPT ![r].pc = "tf_thrown",
                                         ![r].calls = Append(@, error),
                                         ![r].thrown = error]
  /\ UNCHANGED <<now, store, nextId, nextUpload, reqs, reanalyses, resp>>

\* The wait is over: attempt++ of the for loop, then the next call.
TF_Sleep(r) ==
  /\ runs[r].pc = "tf_sleep"
  /\ runs' = [runs EXCEPT ![r].pc = "tf_call", ![r].attempt = @ + 1]
  /\ UNCHANGED <<now, files, store, nextId, nextUpload, reqs, reanalyses, resp>>

NextTranscribeFile ==
  \/ \E r \in 1..Len(runs) : TF_Enter(r)
  \/ \E r \in 1..Len(runs) : TF_Extract(r)
  \/ \E r \in 1..Len(runs) : TF_Call(r)
  \/ \E r \in 1..Len(runs) : TF_Sleep(r)

SpecTranscribeFile == InitTranscribeFile /\ [][NextTranscribeFile]_vars

\* ------------------- upload.js with a Record Store that may reject a call
\* The message of the error a rejected Record Store call throws.
StoreError == "Record Store error"

\* The Record Store call awaited by run r rejects. In the try of
\* processTranscription (status processing, transcription result) the error
\* goes to its catch; in the try of processAIAnalysis (findById, analysis
\* result) it goes to that catch; a rejected update inside the catch of
\* processAIAnalysis rejects processAIAnalysis, which processTranscription
\* awaits inside its try; a rejected update inside the catch of
\* processTranscription leaves through the finally and rejects the promise of
\* processTranscription, which no caller awaits.
RecordStoreRejects(r) ==
  /\ runs[r].pc \in {"pt_start", "pt_save", "pt_fail", "ai_find", "ai_update", "ai_catch"}
  /\ IF runs[r].pc \in {"pt_start", "pt_save", "ai_catch"}
       THEN /\ runs' = [runs EXCEPT ![r].pc = "pt_fail", ![r].thrown = StoreError]
            /\ UNCHANGED files
       ELSE IF runs[r].pc \in {"ai_find", "ai_update"}
         THEN /\ runs' = [runs EXCEPT ![r].pc = "ai_catch", ![r].thrown = StoreError]
              /\ UNCHANGED files
         ELSE /\ runs' = [runs EXCEPT ![r] =
                            [Returned(runs[r], "none") EXCEPT !.thrown = StoreError]]
              /\ files' = WithoutFilePath(files, runs[r])
  /\ resp' = NoResp
  /\ UNCHANGED <<now, store, nextId, nextUpload, reqs, reanalyses>>

\* One step of pipeline run r of upload.js.
RunStep(r) ==
  \/ PT_Start(r) \/ TA_Extract(r) \/ TA_Call(r) \/ TA_Sleep(r)
  \/ PT_Fail(r) \/ PT_Save(r)
  \/ AI_Find(r) \/ AI_Sentiment(r) \/ AI_Insights(r) \/ AI_Update(r) \/ AI_Catch(r)

NextStoreFaults ==
  \/ \E in \in SubmitInputs : Submit(in)
  \/ \E k \in 1..MaxSubmits : SubmitSaved(k)
  \/ \E k \in 1..MaxSubmits : SubmitSaveFailed(k)
  \/ \E r \in 1..Len(runs) : PT_Start(r)
  \/ \E r \in 1..Len(runs) : TA_Extract(r)
  \/ \E r \in 1..Len(runs) : TA_Call(r)
  \/ \E r \in 1..Len(runs) : TA_Sleep(r)
  \/ \E r \in 1..Len(runs) : PT_Fail(r)
  \/ \E r \in 1..Len(runs) : PT_Save(r)
  \/ \E r \in 1..Len(runs) : AI_Find(r)
  \/ \E r \in 1..Len(runs) : AI_Sentiment(r)
  \/ \E r \in 1..Len(runs) : AI_Insights(r)
  \/ \E r \in 1..Len(runs) : AI_Update(r)
  \/ \E r \in 1..Len(runs) : AI_Catch(r)
  \/ \E r \in 1..Len(runs) : RecordStoreRejects(r)
  \/ \E id \in ClientIds : Retry(id)

\* Every call a request or a run awaits returns, with success or with an
\* error, and its continuation is run.
SpecStoreFaults ==
  /\ Init /\ [][NextStoreFaults]_vars
  /\ WF_vars(\E k \in 1..MaxSubmits : SubmitSaved(k) \/ SubmitSaveFailed(k))
  /\ WF_vars(\E r \in 1..Len(runs) : RunStep(r) \/ RecordStoreRejects(r))


\* Transcript.calculateProcessingDuration: end - start when both are set,
\* null (Undefined) otherwise.
calculateProcessingDuration(doc) ==
  IF doc.processingStartTime # Undefined /\ doc.processingEndTime # Undefined
    THEN doc.processingEndTime - doc.processingStartTime
    ELSE Undefined

\* ------------------------------------- upload.js with a running clock
\* Date.now() moves on at any moment, also between two steps of a request
\* handler or of a pipeline run.
Elapse ==
  /\ now < MaxTime
  /\ now' = now + 1
  /\ resp' = NoResp
  /\ UNCHANGED <<files, store, nextId, nextUpload, reqs, runs, reanalyses>>

NextClock ==
  \/ Elapse
  \/ \E in \in SubmitInputs : Submit(in)
  \/ \E k \in 1..MaxSubmits : SubmitSaved(k)
  \/ \E k \in 1..MaxSubmits : SubmitSaveFailed(k)
  \/ \E r \in 1..Len(runs) : PT_Start(r)
  \/ \E r \in 1..Len(runs) : TA_Extract(r)
  \/ \E r \in 1..Len(runs) : TA_Call(r)
  \/ \E r \in 1..Len(runs) : TA_Sleep(r)
  \/ \E r \in 1..Len(runs) : PT_Fail(r)
  \/ \E r \in 1..Len(runs) : PT_Save(r)
  \/ \E r \in 1..Len(runs) : AI_Find(r)
  \/ \E r \in 1..Len(runs) : AI_Sentiment(r)
  \/ \E r \in 1..Len(runs) : AI_Insights(r)
  \/ \E r \in 1..Len(runs) : AI_Update(r)
  \/ \E r \in 1..Len(runs) : AI_Catch(r)
  \/ \E id \in ClientIds : Retry(id)

SpecClock == Init /\ [][NextClock]_vars

\* ------------------------------------------- POST /api/upload (part_008)
\* allowedTypes of part_008: the filter looks at the mimetype only.
AllowedTypes008 ==
  {"audio/mpeg", "audio/wav", "audio/mp4", "audio/m4a", "video/mp4", "video/avi",
   "video/mov", "video/mkv", "video/wmv", "video/flv", "video/webm"}

\* The meetingDuration field of the form: absent, or a number of minutes.
MeetingDurations == {"", "45"}

\* parseInt of the values the form sends.
ParseInt(str) == IF str = "45" THEN 45 ELSE Undefined

\* meetingDuration ? parseInt(meetingDuration) : 0
MeetingDurationOf(in) ==
  IF in.meetingDuration = "" THEN 0 ELSE ParseInt(in.meetingDuration)

Part008Inputs ==
  [file : UploadedFiles, hcpName : HcpNames, hcpSpecialty : {"Cardiology"},
   meetingDate : MeetingDates, meetingDuration : MeetingDurations]

\* new Transcript({...}) of part_008; filePath is the file multer wrote.
NewTranscript008(in, k) ==
  [ hcpName             |-> in.hcpName,
    hcpSpecialty        |-> in.hcpSpecialty,
    meetingDate         |-> in.meetingDate,
    meetingDuration     |-> MeetingDurationOf(in),
    originalFileName    |-> in.file.name,
    filePath            |-> TempUploadPath(k, in.file.ext),
    fileType            |-> in.file.mime,
    rawTranscript       |-> "",
    editedTranscript    |-> "",
    transcriptionStatus |-> "pending",
    analysisStatus      |-> "pending",
    error               |-> "" ]

\* A call processTranscription(transcriptId, filePath) of part_008 that has
\* not yet run; it goes through transcribeFile.
NewRun008(id, filePath, apiKey) ==
  [ id |-> id, filePath |-> filePath, audioPath |-> filePath, apiKey |-> apiKey,
    pc |-> "p8_start", attempt |-> 0, calls |-> << >>, waits |-> << >>,
    thrown |-> "", result |-> NoResult, analysis |-> "none" ]

\* upload.single('file') and the handler up to `await transcript.save()`.
Submit008(in) ==
  IF in.file.mime \notin AllowedTypes008
    THEN /\ resp' = Respond("submit", 400, 0, "", "Invalid file type")
         /\ UNCHANGED <<now, files, store, nextId, nextUpload, reqs, runs, reanalyses>>
    ELSE /\ nextUpload <= MaxUploads
         /\ nextUpload' = nextUpload + 1
         /\ files' = files \cup {TempUploadPath(nextUpload, in.file.ext)}
         /\ IF in.hcpName = "" \/ in.meetingDate = ""
              THEN /\ resp' = Respond("submit", 400, 0, "",
                                      "HCP name and meeting date are required")
                   /\ UNCHANGED reqs
              ELSE /\ reqs' = [reqs EXCEPT ![nextUpload] =
                                 [pc |-> "save008", at |-> now, input |-> in]]
                   /\ resp' = NoResp
         /\ UNCHANGED <<now, store, nextId, runs, reanalyses>>

\* save() has answered: processTranscription is called and the response is
\* sent with res.json (200); a rejected save is answered 500 by the catch.
Submit008Saved(k) ==
  /\ reqs[k].pc = "save008"
  /\ reqs' = [reqs EXCEPT ![k] = FreeReq]
  /\ \E saved \in BOOLEAN :
       IF saved
         THEN /\ store' = (nextId :> NewTranscript008(reqs[k].input, k)) @@ store
              /\ nextId' = nextId + 1
              /\ \E apiKey \in BOOLEAN :
                   runs' = Append(runs,
                             NewRun008(nextId, TempUploadPath(k, reqs[k].input.file.ext),
                                       apiKey))
              /\ resp' = Respond("submit", 200, nextId, "processing", "")
         ELSE /\ resp' = FailedResponse("save failed")
              /\ UNCHANGED <<store, nextId, runs>>
  /\ UNCHANGED <<now, files, nextUpload, reanalyses>>

\* processTranscription of part_008: status processing, then transcribeFile.
P8_Start(r) ==
  /\ runs[r].pc = "p8_start"
  /\ store' = FindByIdAndUpdate(store, runs[r].id, [transcriptionStatus |-> "processing"])
  /\ runs' = [runs EXCEPT ![r].pc = "tf_enter"]
  /\ resp' = NoResp
  /\ UNCHANGED <<now, files, nextId, nextUpload, reqs, reanalyses>>

\* "Update transcript with transcription results"; duration goes to the field
\* `duration`, which the schema does not declare.
TranscriptionUpdate008(res) ==
  [rawTranscript |-> res.text, editedTranscript |-> res.text,
   transcriptionStatus |-> "completed"]

\* transcribeFile has returned or thrown. `if (!transcriptionResult.success)`
\* throws 'Transcription failed'; the catch writes status failed and the
\* message. Otherwise the result is written and processAIAnalysis is started
\* without being awaited.
P8_Result(r) ==
  /\ runs[r].pc \in {"tf_returned", "tf_thrown"}
  /\ IF runs[r].pc = "tf_returned" /\ Truthy(runs[r].result, "success")
       THEN /\ store' = FindByIdAndUpdate(store, runs[r].id,
                          TranscriptionUpdate008(runs[r].result))
            /\ runs' = [runs EXCEPT ![r].pc = "p8_ai"]
       ELSE /\ store' = FindByIdAndUpdate(store, runs[r].id,
                          [transcriptionStatus |-> "failed",
                           error |-> IF runs[r].pc = "tf_thrown" THEN runs[r].thrown
                                     ELSE "Transcription failed"])
            /\ runs' = [runs EXCEPT ![r].pc = "done", ![r].thrown = "",
                                    ![r].attempt = 0]
  /\ resp' = NoResp
  /\ UNCHANGED <<now, files, nextId, nextUpload, reqs, reanalyses>>

NextPart008 ==
  \/ \E in \in Part008Inputs : Submit008(in)
  \/ \E k \in 1..MaxUploads : Submit008Saved(k)
  \/ \E r \in 1..Len(runs) : P8_Start(r)
  \/ \E r \in 1..Len(runs) : TF_Enter(r)
  \/ \E r \in 1..Len(runs) : TF_Extract(r)
  \/ \E r \in 1..Len(runs) : TF_Call(r)
  \/ \E r \in 1..Len(runs) : TF_Sleep(r)
  \/ \E r \in 1..Len(runs) : P8_Result(r)

SpecPart008 == Init /\ [][NextPart008]_vars


\* =================================================================== claims
Status(id) == store[id].transcriptionStatus

FailureStates == {"failed", "retryable_failed"}

\* The runs of one Recording, and the run that writes `processing` in this step.
RunsOf(id) == {r \in 1..Len(runs) : runs[r].id = id}
LeavesStart(r) == runs[r].pc = "pt_start" /\ runs'[r].pc # "pt_start"
StartedByRetry(r) == runs[r].filePath = RetryFilePath(store[runs[r].id].fileUrl)

ForwardSteps ==
  { <<"pending", "processing">>, <<"processing", "completed">>,
    <<"processing", "failed">>, <<"processing", "retryable_failed">> }

AnalysisFailureReturns(r) ==
  /\ runs[r].pc # "done" /\ runs'[r].pc = "done"
  /\ runs'[r].result.success /\ runs'[r].analysis = "failed"
  /\ runs[r].id \in Ids

EndsAfterAnalysisFailure(r, status) ==
  LET id == runs[r].id IN
    /\ id \in DOMAIN store'
    /\ store'[id].rawTranscript = runs'[r].result.text
    /\ store'[id].transcriptionStatus = status
    /\ Len(store'[id].processingErrors) = Len(store[id].processingErrors) + 1

C6_RetryRejected ==
  [][\A id \in ClientIds :
       (resp'.op = "retry" /\ resp'.id = id) =>
         /\ id \notin Ids => resp'.code = 404
         /\ (id \in Ids /\ Status(id) \in {"pending", "processing", "completed"}) =>
              /\ resp'.code = 400
              /\ store' = store /\ runs' = runs /\ files' = files]_vars

\* C6 witness: a retry on a completed Recording has been answered 400.
C6_Witness ==
  /\ resp.op = "retry" /\ resp.code = 400
  /\ resp.id \in Ids /\ Status(resp.id) = "completed"

\* C7 (as claimed): a retry on a failed Recording whose stored file is still
\* on disk is accepted and starts a run on that file.
C7_RetryRestartsFromStoredFile ==
  \A id \in Ids :
    ( /\ resp.op = "retry" /\ resp.id = id
      /\ Status(id) \in FailureStates
      /\ StoredPath(store[id].fileUrl.n, store[id].fileUrl.ext) \in files )
    => /\ resp.code = 200
       /\ \E r \in RunsOf(id) : runs[r].pc = "pt_start"

\* The transcription step of run r has ended in a provider failure.
ProviderFailed(r) ==
  /\ runs[r].pc = "done" /\ runs[r].calls # << >>
  /\ ~runs[r].result.success
  /\ runs[r].id \in Ids

LastCall(r) == runs[r].calls[Len(runs[r].calls)]

\* C8 (as claimed): a failed transcription step ends in retryable_failed when
\* the last failure was a network error (retries exhausted) and in failed
\* otherwise, with one entry pushed and processingEndTime set.
C8_FailureClass ==
  \A r \in 1..Len(runs) :
    ProviderFailed(r) =>
      /\ Status(runs[r].id) =
           (IF isNetworkError(LastCall(r)) THEN "retryable_failed" ELSE "failed")
      /\ Len(store[runs[r].id].processingErrors) = 1
      /\ store[runs[r].id].processingEndTime # Undefined

\* C9 (as claimed): network errors on every attempt: three attempts are made
\* and the Recording ends retryable_failed with three entries.
C9_ExhaustedRetries ==
  \A r \in 1..Len(runs) :
    (ProviderFailed(r) /\ \A i \in 1..Len(runs[r].calls) : isNetworkError(runs[r].calls[i]))
    => /\ Len(runs[r].calls) = 3
       /\ Status(runs[r].id) = "retryable_failed"
       /\ Len(store[runs[r].id].processingErrors) = 3

\* C10 (as claimed): after two network errors the step makes a third attempt,
\* and when that succeeds (and the analysis too) the Recording is completed
\* with no entry in processingErrors.
C10_ThirdAttemptCompletes ==
  \A r \in 1..Len(runs) :
    ( /\ Len(runs[r].calls) >= 2
      /\ isNetworkError(runs[r].calls[1]) /\ isNetworkError(runs[r].calls[2]) )
    => IF Len(runs[r].calls) = 2
         THEN runs[r].pc \in {"ta_sleep", "ta_call"}
         ELSE ( /\ runs[r].calls[3] = "ok" /\ runs[r].pc = "done"
                /\ runs[r].analysis = "ok" /\ runs[r].id \in Ids )
              => /\ Status(runs[r].id) = "completed"
                 /\ store[runs[r].id].processingErrors = << >>

\* ------------------------------------------------ the duplicate check
\* The handler of request k gets the answer of findOne in this step.
Answered(k) == reqs[k].pc = "check" /\ reqs'[k].pc # "check"

\* Recording id is the only one in the store that carries this file name, as
\* after a first submit of the file.
OnlyNamesake(id, in) ==
  \A j \in Ids : store[j].originalFileName = in.file.name => j = id

ExistingResponse(id) ==
  Respond("submit", 200, id, store[id].transcriptionStatus, "Transcript already exists")

C5_RecentDuplicateGuard ==
  [][/\ \A k \in 1..MaxSubmits : \A id \in Ids :
          (Answered(k) /\ store[id].originalFileName = reqs[k].input.file.name
             /\ ~SameKey(store[id], reqs[k].input)
             /\ OnlyNamesake(id, reqs[k].input))
          => /\ reqs[k].at - store[id].createdAt < DedupeWindow
                  => (resp' = ExistingResponse(id) /\ store' = store /\ runs' = runs)
             /\ (reqs[k].at - store[id].createdAt > DedupeWindow /\ resp'.code # 500)
                  => (reqs'[k].pc = "save" /\ resp' = NoResp)
     /\ \A k \in 1..MaxSubmits :
          (reqs[k].pc = "save" /\ reqs'[k].pc = "free" /\ resp'.code # 500)
          => /\ nextId \notin Ids
             /\ DOMAIN store' = Ids \cup {nextId}
             /\ \A id \in Ids : store'[id] = store[id]
             /\ store'[nextId].hcpName = reqs[k].input.hcpName
             /\ resp'.code = 201 /\ resp'.id = nextId]_vars

\* Two Recordings of one file name under different names of the HCP: the second
\* was created after the window of the first had gone by.
C5_Witness ==
  /\ resp.op = "submit" /\ resp.code = 201 /\ resp.id = 2
  /\ Ids = {1, 2}
  /\ store[1].originalFileName = store[2].originalFileName
  /\ store[1].hcpName # store[2].hcpName
  /\ store[2].createdAt - store[1].createdAt > DedupeWindow

\* ------------------------------------------------------ accepted submit
\* save() of request k resolves in this step: the submit is accepted.
Saved(k) ==
  reqs[k].pc = "save" /\ reqs'[k].pc = "free" /\ resp'.code # 500

\* What the step that ends an accepted submit does, but for the status named
\* in the response: one Recording is added, pending and with meetingDuration 0;
\* the response is 201 with its id; the run of that Recording is added in this
\* step, after the save, and has not taken a step when the response is sent.
AcceptedSubmit(k, status) ==
  /\ nextId \notin Ids
  /\ DOMAIN store' = Ids \cup {nextId}
  /\ \A id \in Ids : store'[id] = store[id]
  /\ store'[nextId].transcriptionStatus = "pending"
  /\ store'[nextId].meetingDuration = 0
  /\ store'[nextId].rawTranscript = ""
  /\ resp' = Respond("submit", 201, nextId, status, "")
  /\ \A r \in 1..Len(runs) : runs[r].id # nextId
  /\ Len(runs') = Len(runs) + 1
  /\ \A r \in 1..Len(runs) : runs'[r] = runs[r]
  /\ runs'[Len(runs')].id = nextId
  /\ runs'[Len(runs')].pc \in {"pt_start", "p9_start"}

\* C11 (as claimed): an accepted submit creates one pending Recording with
\* meetingDuration 0, schedules its run after the save and answers 201 with
\* the id and status pending, without waiting for the run.
C11_AcceptedSubmitAnswersPending ==
  [][\A k \in 1..MaxSubmits : Saved(k) => AcceptedSubmit(k, "pending")]_vars

\* C11 (amended): the same, the status in the response being the literal
\* processing while the Recording is stored as pending.
C11_AcceptedSubmitAnswersProcessing ==
  [][\A k \in 1..MaxSubmits : Saved(k) => AcceptedSubmit(k, "processing")]_vars

\* C11 witness: the 201 has just been sent; the Recording is pending and its
\* run has not started.
C11_Witness ==
  /\ resp.op = "submit" /\ resp.code = 201 /\ resp.id \in Ids
  /\ Status(resp.id) = "pending"
  /\ \E r \in RunsOf(resp.id) : runs[r].pc = "pt_start"

\* ------------------------------------------------------ rejected submit
\* The file of a submit has an extension outside the whitelist.
UnsupportedExtension(file) == file.ext \notin AllowedExtensions

\* The copies fileService.uploadFile has made.
MediaStoreFiles == {p \in files : p.dir = "server/uploads"}

\* The step in which the upload middleware and the handler receive the submit
\* `in`: the file is refused by the filter, or the upload is counted and the
\* handler either answers or goes on with `in`.
Arrives(in) ==
  \/ /\ nextUpload' = nextUpload + 1
     /\ \/ reqs'[nextUpload] # reqs[nextUpload] /\ reqs'[nextUpload].input = in
        \/ reqs' = reqs /\ MissingRequiredFields(in)
  \/ /\ nextUpload' = nextUpload /\ reqs' = reqs
     /\ resp'.op = "submit" /\ ~fileFilter(in.file)

\* C12 (as claimed): a submit with a required field missing or empty, or with
\* a file whose extension is outside the whitelist, is answered 400 on
\* arrival; no Recording is created, no file is written to the Media Store
\* and no run is started, then or later.
C12_InvalidSubmitRejected ==
  [][\A in \in SubmitInputs :
       (Arrives(in) /\ (MissingRequiredFields(in) \/ UnsupportedExtension(in.file)))
       => /\ resp'.op = "submit" /\ resp'.code = 400
          /\ reqs' = reqs
          /\ store' = store /\ runs' = runs
          /\ MediaStoreFiles' = MediaStoreFiles]_vars

\* ------------------------------------------------------------ reanalyze
\* A reanalyze request on Recording id gets the answer of findById in this
\* step: it is answered at once, or a pass is started.
ReanalyzeArrives(id) ==
  \/ resp'.op = "reanalyze" /\ resp'.id = id /\ reanalyses' = reanalyses
  \/ /\ Len(reanalyses') = Len(reanalyses) + 1
     /\ reanalyses'[Len(reanalyses')].id = id

\* C13: reanalyze on a Recording whose editedTranscript and rawTranscript are
\* both empty is answered 400, starts no pass (so the Analysis Provider is not
\* called) and leaves the store unchanged; otherwise a pass is started whose
\* text is editedTranscript when that is non-empty and rawTranscript when it
\* is empty, and the text of a pass is the same for the sentiment call and the
\* insights call.
C13_ReanalyzeText ==
  [][/\ \A id \in Ids :
          ReanalyzeArrives(id) =>
            IF store[id].editedTranscript = "" /\ store[id].rawTranscript = ""
              THEN /\ resp'.code = 400
                   /\ reanalyses' = reanalyses
                   /\ store' = store
              ELSE /\ Len(reanalyses') = Len(reanalyses) + 1
                   /\ reanalyses'[Len(reanalyses')].pc = "ra_sentiment"
                   /\ reanalyses'[Len(reanalyses')].text =
                        (IF store[id].editedTranscript # ""
                           THEN store[id].editedTranscript
                           ELSE store[id].rawTranscript)
     /\ \A n \in 1..Len(reanalyses) : reanalyses'[n].text = reanalyses[n].text]_vars

\* C13 witness: a pass on a Recording that has both texts has made its
\* sentiment call with the edited text.
C13_Witness ==
  \E n \in 1..Len(reanalyses) :
    /\ reanalyses[n].pc = "ra_insights"
    /\ reanalyses[n].id \in Ids
    /\ store[reanalyses[n].id].rawTranscript = "hello world"
    /\ reanalyses[n].text = "edited text"

\* --------------------------------------------------------------- delete
\* The copy fileService.uploadFile made for a Recording.
StoredFileOf(doc) == StoredPath(doc.fileUrl.n, doc.fileUrl.ext)

\* C14 (as claimed): a delete answered with success removes the Recording from
\* the Record Store and its stored file from the Media Store.
C14_DeleteRemovesRecordAndFile ==
  [][\A id \in Ids :
       (resp'.op = "delete" /\ resp'.code = 200 /\ resp'.id = id)
       => /\ id \notin DOMAIN store'
          /\ StoredFileOf(store[id]) \notin files']_vars

\* --------------------------------------------------- concurrent submits
\* Two Recordings made from submits with the same originalFileName,
\* meetingDate, hcpName and hcpSpecialty.
SameSubmission(a, b) ==
  /\ a.originalFileName = b.originalFileName
  /\ a.meetingDate = b.meetingDate
  /\ a.hcpName = b.hcpName
  /\ a.hcpSpecialty = b.hcpSpecialty

\* C15 (as claimed): however two submits with the same four fields interleave,
\* at most one Recording is created for them, and a 201 is never sent for a
\* submission that already has a Recording.
C15_ConcurrentSubmitsCreateOne ==
  /\ \A i \in Ids : \A j \in Ids : SameSubmission(store[i], store[j]) => i = j
  /\ (resp.op = "submit" /\ resp.code = 201 /\ resp.id \in Ids)
       => \A j \in Ids : SameSubmission(store[j], store[resp.id]) => j = resp.id

\* ------------------------------------------------- one run per Recording
\* The runs of Recording id that have been started and have not returned.
ActiveRuns(id) == {r \in 1..Len(runs) : runs[r].id = id /\ runs[r].pc # "done"}

IsTranscribeFileCall(run) == "apiKey" \in DOMAIN run
AttemptCap(run) ==
  IF IsTranscribeFileCall(run) THEN TranscribeFileMaxRetries ELSE maxRetries

\* C17: within one call of the transcription step the provider is invoked
\* again only after a network-class error (so a non-network error is the last
\* invocation), the invocations never exceed the attempt cap, and the wait
\* before the k-th re-attempt is 1s doubled k-1 times.
C17_RetryOnlyOnNetworkError ==
  \A r \in 1..Len(runs) :
    /\ \A i \in 1..(Len(runs[r].calls) - 1) : runs[r].calls[i] = NetworkError
    /\ Len(runs[r].calls) <= AttemptCap(runs[r])
    /\ \A k \in 1..Len(runs[r].waits) : runs[r].waits[k] = 1000 * 2^(k - 1)

\* ------------------------------------------------------ temporary files
\* The temporary local files of a run: the file processTranscription hands to
\* transcribeAudio (the temp upload copy in upload.js, the copy written to
\* os.tmpdir() in part_009) and the audio extracted from it.
TempFilesOf(run) ==
  IF run.filePath = NoPath THEN {} ELSE {run.filePath, AudioPath(run.filePath)}

\* C18: once a pipeline run has finished, whatever its outcome, none of its
\* temporary local files is left on disk.
C18_NoTempFileAfterRun ==
  \A r \in 1..Len(runs) :
    runs[r].pc = "done" => TempFilesOf(runs[r]) \cap files = {}

\* ------------------------------------------------- temp upload copies
\* The temp copies written by the upload middleware that are on disk.
TempUploadCopies ==
  {p \in files : \E k \in 1..MaxSubmits, f \in UploadedFiles :
                   p = TempUploadPath(k, f.ext)}

\* No submit request is being handled and every run has returned.
Quiescent ==
  /\ \A k \in 1..MaxSubmits : reqs[k].pc = "free"
  /\ \A r \in 1..Len(runs) : runs[r].pc = "done"

\* C19: whatever the outcome of a submit that carried a file (400 for missing
\* fields, 200 for a duplicate, 500, or 201), its temp upload copy is deleted
\* by the time the request and the run it started are over.
C19_TempUploadCopyDeleted == Quiescent => TempUploadCopies = {}

\* ------------------------------------------------------- processingErrors
IsPrefix(a, b) == Len(a) <= Len(b) /\ \A i \in 1..Len(a) : b[i] = a[i]

\* C20: processingErrors is append-only: in every step (pipeline, retry, edit,
\* reanalyze, submit) the list of each Recording that stays in the Record
\* Store is a prefix of its list after the step.
C20_ProcessingErrorsAppendOnly ==
  [][\A id \in Ids \cap DOMAIN store' :
       IsPrefix(store[id].processingErrors, store'[id].processingErrors)]_vars

\* C20 witness: a reanalysis has just rewritten the analysis of a Recording
\* whose list holds the entry of the failed analysis of its run.
C20_Witness ==
  /\ resp.op = "reanalyze" /\ resp.code = 200 /\ resp.id \in Ids
  /\ Len(store[resp.id].processingErrors) >= 1

\* ------------------------------------------------ failures inside a run
\* The run has returned without a persisted analysis: its transcription or
\* its analysis failed.
RunFailed(run) == run.pc = "done" /\ run.analysis # "ok"

\* The promise of the run was rejected: an error left processTranscription.
RunRejected(run) == run.pc = "done" /\ run.thrown # ""

\* C21: every failure inside a pipeline run is caught inside the run and
\* recorded on the Recording: no run ends with its promise rejected, and a
\* Recording whose run has ended in a failure has an entry in processingErrors.
C21_RunFailureRecorded ==
  \A r \in 1..Len(runs) :
    /\ ~RunRejected(runs[r])
    /\ (RunFailed(runs[r]) /\ runs[r].id \in Ids)
         => Len(store[runs[r].id].processingErrors) >= 1

\* ------------------------------------------------------ terminal status
TerminalStates == {"completed", "failed", "retryable_failed"}

\* C22: every accepted Recording eventually leaves pending / processing for
\* completed, failed or retryable_failed, provided every call its request and
\* its run await returns with success or with an error.
C22_ReachesTerminalState ==
  \A id \in 1..MaxUploads :
    (id \in Ids /\ Status(id) \in {"pending", "processing"})
      ~> (id \in Ids /\ Status(id) \in TerminalStates)

\* ------------------------------------------------ one pass, one update
\* The analysis pass a persisted field comes from.
PassOf(field) == [by |-> field.by, n |-> field.n]

AnalysisPcs == {"ai_find", "ai_sentiment", "ai_insights", "ai_update", "ai_catch"}

\* C24: a run is in its analysis step only after its transcription has
\* succeeded and the write of rawTranscript has completed; the text the
\* analysis reads is the transcript that run wrote; a run whose transcription
\* failed never enters the analysis step.
C24_AnalysisAfterTranscription ==
  \A r \in 1..Len(runs) :
    /\ runs[r].pc \in AnalysisPcs =>
         /\ runs[r].result.success
         /\ runs[r].id \in Ids =>
              /\ store[runs[r].id].rawTranscript = runs[r].result.text
              /\ Status(runs[r].id) = "completed"
    /\ runs[r].pc \in {"ai_sentiment", "ai_insights", "ai_update"} =>
         runs[r].text = runs[r].result.text
    /\ ~runs[r].result.success =>
         runs[r].pc \notin AnalysisPcs /\ runs[r].analysis = "none"

\* C24 witness: the analysis of a run is waiting for the sentiment of the
\* transcript the run has just stored.
C24_Witness ==
  \E r \in 1..Len(runs) :
    /\ runs[r].pc = "ai_sentiment" /\ runs[r].text = "hello world"
    /\ runs[r].id \in Ids /\ store[runs[r].id].rawTranscript = "hello world"

\* ------------------------------------------------- analysis of no text
\* The run has called the Analysis Provider: it awaits the sentiment, awaits
\* the insights, or holds both answers.
AnalysisProviderCalledPcs ==
  {"ai_sentiment", "ai_insights", "ai_update", "p9_ai_sentiment", "p9_ai_insights",
   "p9_ai_update"}

\* C25: the analysis step of a run never calls the Analysis Provider on an
\* empty transcript text.
C25_NoAnalysisOfEmptyText ==
  \A r \in 1..Len(runs) :
    runs[r].pc \in AnalysisProviderCalledPcs => runs[r].text # ""

\* ---------------------------------------------- malformed insight values
\* Run r leaves the point where it holds both provider answers, the insight
\* response carrying keyInsights as a string instead of a list.
WritesMalformedInsights(r) ==
  /\ runs[r].pc \in {"ai_update", "p9_ai_update"}
  /\ runs'[r].pc # runs[r].pc
  /\ runs[r].insights.keyInsights = "string"
  /\ runs[r].id \in Ids

\* C26: when the insight response carries keyInsights as a string, the
\* analysis pass still succeeds and the Recording is persisted with
\* keyInsights = []: the string is neither stored nor made a failure.
C26_MalformedInsightsNormalised ==
  [][\A r \in 1..Len(runs) :
       WritesMalformedInsights(r)
         => /\ runs'[r].pc = "done" /\ runs'[r].analysis = "ok"
            /\ store'[runs[r].id].keyInsights.val = "[]"]_vars

\* ---------------------------------------------------------------- C27
\* A step in which a transcription of Recording id succeeds: the Recording
\* becomes completed in that step.
TranscriptionSucceeds(id) ==
  /\ store[id].transcriptionStatus # "completed"
  /\ store'[id].transcriptionStatus = "completed"

\* C27: meetingDuration is 0 when a Recording is created, and it changes only
\* in a step in which a transcription of that Recording succeeds; no input of a
\* submit, failed transcription, analysis, retry, edit or reanalyze changes it.
C27_MeetingDurationOnlyFromTranscription ==
  [][\A id \in DOMAIN store' :
       IF id \notin DOMAIN store
         THEN store'[id].meetingDuration = 0
         ELSE store'[id].meetingDuration # store[id].meetingDuration
                => TranscriptionSucceeds(id)]_vars

\* ---------------------------------------------------------------- C28
\* A step of an edit or of a reanalyze: one of them is answered, or a
\* reanalysis pass is started or moves on.
EditOrReanalyzeStep ==
  resp'.op \in {"edit", "reanalyze"} \/ reanalyses' # reanalyses

\* A reanalyze that is answered with a failure in this step.
ReanalyzeFails == resp'.op = "reanalyze" /\ resp'.code # 200

\* The fields edit and reanalyze may not touch.
PipelineFields ==
  {"transcriptionStatus", "rawTranscript", "originalFileName", "fileUrl", "fileType",
   "processingStartTime", "processingEndTime", "processingErrors"}

AnalysisFields == {"sentimentAnalysis", "keyInsights", "actionItems"}

\* C28: an edit and a reanalyze, whether they succeed or fail, keep every
\* Recording and leave its transcriptionStatus, rawTranscript, file reference,
\* processing timestamps and processingErrors as they were (so a completed
\* Recording stays completed); a reanalyze that fails leaves the sentiment,
\* the insights and the action items of the earlier pass unchanged.
C28_EditAndReanalyzeKeepPipelineFields ==
  [][EditOrReanalyzeStep =>
       /\ DOMAIN store' = DOMAIN store
       /\ \A id \in Ids :
            /\ \A f \in PipelineFields : store'[id][f] = store[id][f]
            /\ ReanalyzeFails =>
                 \A f \in AnalysisFields : store'[id][f] = store[id][f]]_vars

\* C28 witness: a reanalyze on a completed Recording that carries the analysis
\* of its run has just failed after its pass was started.
C28_Witness ==
  /\ resp.op = "reanalyze" /\ resp.code = 500
  /\ resp.id \in Ids
  /\ Status(resp.id) = "completed"
  /\ store[resp.id].sentimentAnalysis.by = "pipeline"
  /\ \E n \in 1..Len(reanalyses) : reanalyses[n].id = resp.id /\ reanalyses[n].pc = "done"

ExtNameOf(name) == (CHOOSE f \in UploadedFiles : f.name = name).ext

\* C30: the fileType stored with a Recording is audio exactly when the
\* extension of its original file name is .mp3, .wav or .m4a, and video
\* otherwise.
C30_FileTypeFromExtension ==
  \A id \in Ids :
    store[id].fileType =
      (IF ExtNameOf(store[id].originalFileName) \in {".mp3", ".wav", ".m4a"}
         THEN "audio" ELSE "video")

====
